---- MODULE Spec2Model ----
(***************************************************************************)
(* Temporal security master (CRSP names x CRSP/Compustat links) and the    *)
(* ESG provider mappers built on it.                                       *)
(*                                                                         *)
(* Data frames are sequences of records: row order is part of the state,   *)
(* because sort_values (stable lexsort on several columns) and             *)
(* drop_duplicates(keep="first") resolve ties by row position.             *)
(* Dates are day numbers; a missing value is NA (numbers, dates), "NA"     *)
(* (strings) or NAg (gvkey, a string of characters).                       *)
(***************************************************************************)
EXTENDS Integers, Sequences, FiniteSets, TLC

VARIABLES
    \* build_security_master: the stage reached, the rows of the two raw
    \* files, the processed frames and the outputs
    pc, rawNames, rawLinks, names, links, time_master, primary_map,
    \* the files it wrote, the counts of its sanity checks, its return value
    sm_files, sanity, sm_result,
    \* norm_gvkey applied to one value: the stage, the raw value, the result
    npc, gv_raw, gv_norm,
    \* a mapper run: the stage, the provider class, the loaded frames, the
    \* filtered security master, the yearly matches, the crosswalk, the files
    \* written, and the match a growing table of matches got last
    mpc, mapper, provider_data, security_master, sm_filtered, matches,
    crosswalk, saved, added,
    \* run_mappers.main: the stage, the state of the security master and of
    \* each provider's source, the turn of the loop, the results, the
    \* crosswalk files in the output directory, the consolidated mapping
    \* and the exit status of the process
    rpc, master, sources, position, results, out_dir, consolidated, exit_status

smVars == <<pc, rawNames, rawLinks, names, links, time_master, primary_map,
            sm_files, sanity, sm_result>>

normVars == <<npc, gv_raw, gv_norm>>

mapVars == <<mpc, mapper, provider_data, security_master, sm_filtered, matches,
             crosswalk, saved, added>>

runVars == <<rpc, master, sources, position, results, out_dir, consolidated,
             exit_status>>

vars == <<smVars, normVars, mapVars, runVars>>

\* ------------------------------------------------------------------------
\* Bounds of the model
\* ------------------------------------------------------------------------
MaxNames == 2
MaxLinks == 2
\* the longest raw gvkey value
MaxRawLen == 7
\* rows of the provider data and of the security master of a mapper run
MaxRecords == 2
MaxSegs == 2
\* rows of a table of yearly matches
MaxMatches == 3
\* rows of a frame handed to the sanity checks
MaxChecked == 2
\* rows of a frame of flagged segments handed to compute_primary_permno
MaxFlagged == 3

\* ------------------------------------------------------------------------
\* Constants of the program
\* ------------------------------------------------------------------------
\* pd.NA / pd.NaT / NaN of a numeric or date column
NA == -1
\* a date text of a raw file that does not parse as a date
Garbled == -2
\* pd.Timestamp("2262-04-11"), as a day number above every date of the data
far_future == 9
\* pd.Timestamp("1900-01-01"), as a day number below every date of the data
link_start_default == 0
\* zfill(6)
GVKEY_WIDTH == 6
\* the widest difference of two datetime64[ns] values (2^63 ns, about 292 years)
\* on the scale of the day numbers: far_future - TIMEDELTA_MAX is 1970-01-01
TIMEDELTA_MAX == 6

\* <NA> of the string column gvkey
NAg == <<"NA">>

Digits == {"0", "1", "2", "3", "4", "5", "6", "7", "8", "9"}

\* ------------------------------------------------------------------------
\* Data-frame helpers
\* ------------------------------------------------------------------------
SeqsUpTo(S, n) == UNION {[1..k -> S] : k \in 0..n}

Rows(df) == {df[i] : i \in DOMAIN df}

\* the rows of df at the positions I, in their order in df
Take(df, I) ==
    [p \in 1..Cardinality(I) |->
        df[CHOOSE i \in I : Cardinality({j \in I : j <= i}) = p]]

\* df[mask]
Filter(df, Test(_)) == Take(df, {i \in DOMAIN df : Test(df[i])})

\* DataFrame.sort_values on several columns: lexsort_indexer, a stable sort;
\* Before(a, b) is the strict order of the sort keys
SortValues(df, Before(_, _)) ==
    LET n == Len(df)
        pos(i) == 1 + Cardinality({j \in 1..n :
                        \/ Before(df[j], df[i])
                        \/ (~Before(df[i], df[j]) /\ j < i)})
    IN  [p \in 1..n |-> df[CHOOSE i \in 1..n : pos(i) = p]]

\* DataFrame.drop_duplicates(subset=..., keep="first")
DropDuplicates(df, Key(_)) ==
    Take(df, {i \in DOMAIN df : \A j \in 1..(i - 1) : Key(df[j]) # Key(df[i])})

RECURSIVE Concat(_)
Concat(ss) == IF ss = <<>> THEN <<>> ELSE Head(ss) \o Concat(Tail(ss))

\* comparisons of nullable values: a comparison with NA / NaT is False
Le(a, b) == a # NA /\ b # NA /\ a <= b
Ge(a, b) == a # NA /\ b # NA /\ a >= b

Min2(a, b) == IF a <= b THEN a ELSE b
Max2(a, b) == IF a >= b THEN a ELSE b

DigitSeq == <<"0", "1", "2", "3", "4", "5", "6", "7", "8", "9">>

DigitVal(c) == CHOOSE k \in 0..9 : DigitSeq[k + 1] = c

\* lexicographic order of two strings of digits
RECURSIVE StrLess(_, _)
StrLess(a, b) ==
    IF b = <<>> THEN FALSE
    ELSE IF a = <<>> THEN TRUE
    ELSE IF Head(a) # Head(b) THEN DigitVal(Head(a)) < DigitVal(Head(b))
    ELSE StrLess(Tail(a), Tail(b))

\* ------------------------------------------------------------------------
\* norm_gvkey
\* ------------------------------------------------------------------------
RECURSIVE LStrip(_)
LStrip(s) == IF s # <<>> /\ Head(s) = " " THEN LStrip(Tail(s)) ELSE s

RECURSIVE RStrip(_)
RStrip(s) ==
    IF s # <<>> /\ s[Len(s)] = " " THEN RStrip(SubSeq(s, 1, Len(s) - 1)) ELSE s

\* .str.strip()
Strip(s) == RStrip(LStrip(s))

\* .str.replace(r"\.0$", "", regex=True)
DropDotZero(s) ==
    IF Len(s) >= 2 /\ s[Len(s) - 1] = "." /\ s[Len(s)] = "0"
    THEN SubSeq(s, 1, Len(s) - 2) ELSE s

\* .str.replace(r"\D", "", regex=True)
KeepDigits(s) == Filter(s, LAMBDA c : c \in Digits)

\* .str.zfill(width)
RECURSIVE Zfill(_, _)
Zfill(s, w) == IF Len(s) >= w THEN s ELSE Zfill(<<"0">> \o s, w)

norm_gvkey(raw) ==
    IF raw = NAg THEN NAg
    ELSE LET s == KeepDigits(DropDotZero(Strip(raw)))
         IN  IF s = <<>> THEN NAg ELSE Zfill(s, GVKEY_WIDTH)

\* ------------------------------------------------------------------------
\* load_and_process_names
\* ------------------------------------------------------------------------
\* pd.to_datetime(..., errors="coerce"): a text that is no date becomes NaT,
\* as an empty or open-ended ("E") one does
to_datetime(x) == IF x = Garbled THEN NA ELSE x

\* one row of the NAMES file after parsing: a nameendt that is NaT becomes
\* far_future
ProcessName(r) ==
    [permno   |-> r.permno,
     namedt   |-> to_datetime(r.namedt),
     nameendt |-> IF to_datetime(r.nameendt) = NA THEN far_future
                  ELSE to_datetime(r.nameendt),
     ncusip6  |-> r.ncusip6,
     shrcd    |-> r.shrcd]

\* .dropna(subset=["permno", "namedt"])
load_and_process_names(raw) ==
    Filter([i \in DOMAIN raw |-> ProcessName(raw[i])],
           LAMBDA r : r.permno # NA /\ r.namedt # NA)

\* ------------------------------------------------------------------------
\* load_and_process_links
\* ------------------------------------------------------------------------
\* LINKTYPE_PRIORITY, others default to 0
LinktypeRank(lt) == IF lt = "LU" THEN 2 ELSE IF lt = "LC" THEN 1 ELSE 0

\* lp.isin(["P", "C"])
LinkprimScore(lp) == IF lp \in {"P", "C"} THEN 1 ELSE 0

ProcessLink(r) ==
    [permno         |-> r.permno,
     gvkey          |-> norm_gvkey(r.gvkey),
     linkdt         |-> IF to_datetime(r.linkdt) = NA THEN link_start_default
                        ELSE to_datetime(r.linkdt),
     linkenddt      |-> IF to_datetime(r.linkenddt) = NA THEN far_future
                        ELSE to_datetime(r.linkenddt),
     cusip6         |-> r.cusip6,
     linkprim       |-> r.linkprim,
     linktype       |-> r.linktype,
     linkprim_score |-> LinkprimScore(r.linkprim),
     linktype_rank  |-> LinktypeRank(r.linktype)]

\* the subset of dropna: rows without permno, linkdt or linkenddt are dropped
LinkKept(r) == r.permno # NA /\ r.linkdt # NA /\ r.linkenddt # NA

load_and_process_links(raw) ==
    Filter([i \in DOMAIN raw |-> ProcessLink(raw[i])], LinkKept)

\* ------------------------------------------------------------------------
\* merge_and_rank
\* ------------------------------------------------------------------------
seg_keys(r) == <<r.permno, r.namedt, r.nameendt>>

\* the link columns of a names row that found no link in the left merge
NoLink ==
    [gvkey |-> NAg, linkdt |-> NA, linkenddt |-> NA, cusip6 |-> "NA",
     linkprim |-> "NA", linktype |-> "NA", linkprim_score |-> NA,
     linktype_rank |-> NA]

JoinRow(n, l) ==
    [permno |-> n.permno, namedt |-> n.namedt, nameendt |-> n.nameendt,
     ncusip6 |-> n.ncusip6, shrcd |-> n.shrcd,
     gvkey |-> l.gvkey, linkdt |-> l.linkdt, linkenddt |-> l.linkenddt,
     cusip6 |-> l.cusip6, linkprim |-> l.linkprim, linktype |-> l.linktype,
     linkprim_score |-> l.linkprim_score, linktype_rank |-> l.linktype_rank]

\* names.merge(links, on="permno", how="left"): the rows of names in their
\* order, each with its links in the order of links, or once without a link
MergeLeft(nm, lk) ==
    LET rowsFor(n) ==
            LET m == Filter(lk, LAMBDA l : l.permno = n.permno)
            IN  IF m = <<>> THEN <<JoinRow(n, NoLink)>>
                ELSE [k \in DOMAIN m |-> JoinRow(n, m[k])]
    IN  Concat([i \in DOMAIN nm |-> rowsFor(nm[i])])

\* (namedt <= linkenddt) & (nameendt >= linkdt), NaN compared as False
OverlapOk(r) == Le(r.namedt, r.linkenddt) /\ Ge(r.nameendt, r.linkdt)

\* DataFrame({namedt, linkdt}).max(axis=1), NaT skipped
OverlapStart(r) == IF r.linkdt = NA THEN r.namedt ELSE Max2(r.namedt, r.linkdt)

\* DataFrame({nameendt, linkenddt}).min(axis=1), NaT skipped
OverlapEnd(r) ==
    IF r.linkenddt = NA THEN r.nameendt ELSE Min2(r.nameendt, r.linkenddt)

\* a difference of two timestamps that does not fit timedelta64[ns]: the
\* subtraction of the two Series raises OverflowError
SubOverflows(a, b) == a - b > TIMEDELTA_MAX

\* np.where(overlap_ok, (overlap_end - overlap_start).dt.days.clip(lower=0), 0)
OverlapDays(r) ==
    IF OverlapOk(r) THEN Max2(0, OverlapEnd(r) - OverlapStart(r)) ELSE 0

\* ncusip6.notna() & cusip6.notna() & (ncusip6 == cusip6)
Cusip6Match(r) ==
    IF r.ncusip6 # "NA" /\ r.cusip6 # "NA" /\ r.ncusip6 = r.cusip6 THEN 1 ELSE 0

\* pd.to_numeric(...).fillna(0)
Fill0(x) == IF x = NA THEN 0 ELSE x

Scored(r) ==
    [permno |-> r.permno, namedt |-> r.namedt, nameendt |-> r.nameendt,
     ncusip6 |-> r.ncusip6, shrcd |-> r.shrcd,
     gvkey |-> r.gvkey, linkdt |-> r.linkdt, linkenddt |-> r.linkenddt,
     cusip6 |-> r.cusip6, linkprim |-> r.linkprim, linktype |-> r.linktype,
     linkprim_score |-> Fill0(r.linkprim_score),
     linktype_rank |-> Fill0(r.linktype_rank),
     overlap_ok |-> OverlapOk(r),
     overlap_days |-> OverlapDays(r),
     cusip6_match |-> Cusip6Match(r)]

\* ascending order of a date column, NaT last
DateBefore(a, b) == a # NA /\ (b = NA \/ a < b)

\* the sort with overlap_days moved before the three quality columns
RankBefore_OverlapFirst(a, b) ==
    IF a.permno # b.permno THEN a.permno < b.permno
    ELSE IF a.namedt # b.namedt THEN a.namedt < b.namedt
    ELSE IF a.nameendt # b.nameendt THEN a.nameendt < b.nameendt
    ELSE IF a.overlap_days # b.overlap_days
         THEN a.overlap_days > b.overlap_days
    ELSE IF a.linkprim_score # b.linkprim_score
         THEN a.linkprim_score > b.linkprim_score
    ELSE IF a.linktype_rank # b.linktype_rank
         THEN a.linktype_rank > b.linktype_rank
    ELSE IF a.cusip6_match # b.cusip6_match
         THEN a.cusip6_match > b.cusip6_match
    ELSE DateBefore(a.linkdt, b.linkdt)

\* sort_values(["permno", "namedt", "nameendt", "linkprim_score",
\* "linktype_rank", "cusip6_match", "overlap_days", "linkdt"],
\* ascending=[True, True, True, False, False, False, False, True])
RankBefore(a, b) ==
    IF a.permno # b.permno THEN a.permno < b.permno
    ELSE IF a.namedt # b.namedt THEN a.namedt < b.namedt
    ELSE IF a.nameendt # b.nameendt THEN a.nameendt < b.nameendt
    ELSE IF a.linkprim_score # b.linkprim_score
         THEN a.linkprim_score > b.linkprim_score
    ELSE IF a.linktype_rank # b.linktype_rank
         THEN a.linktype_rank > b.linktype_rank
    ELSE IF a.cusip6_match # b.cusip6_match
         THEN a.cusip6_match > b.cusip6_match
    ELSE IF a.overlap_days # b.overlap_days
         THEN a.overlap_days > b.overlap_days
    ELSE DateBefore(a.linkdt, b.linkdt)

\* the sorted merge of names and links with the overlap and score columns
Merged(nm, lk) ==
    LET m == MergeLeft(nm, lk)
    IN  SortValues([i \in DOMAIN m |-> Scored(m[i])], RankBefore)

\* matched_best without the drop_duplicates: every qualifying link is kept
MatchedBest_KeepAll(nm, lk) == Filter(Merged(nm, lk), LAMBDA r : r.overlap_ok)

\* merged[merged["overlap_ok"]].drop_duplicates(subset=seg_keys, keep="first")
MatchedBest(nm, lk) ==
    DropDuplicates(Filter(Merged(nm, lk), LAMBDA r : r.overlap_ok), seg_keys)

\* the output columns of a row of matched_best
MasterRow(r) ==
    [permno |-> r.permno, namedt |-> r.namedt, nameendt |-> r.nameendt,
     ncusip6 |-> r.ncusip6, shrcd |-> r.shrcd,
     gvkey |-> r.gvkey, linkdt |-> r.linkdt, linkenddt |-> r.linkenddt,
     cusip6 |-> r.cusip6, linkprim |-> r.linkprim, linktype |-> r.linktype,
     linkprim_score |-> r.linkprim_score, linktype_rank |-> r.linktype_rank,
     overlap_days |-> r.overlap_days, cusip6_match |-> r.cusip6_match]

\* a segment without a qualifying link, its link columns filled
UnmatchedRow(n) ==
    [permno |-> n.permno, namedt |-> n.namedt, nameendt |-> n.nameendt,
     ncusip6 |-> n.ncusip6, shrcd |-> n.shrcd,
     gvkey |-> NAg, linkdt |-> NA, linkenddt |-> NA,
     cusip6 |-> "NA", linkprim |-> "NA", linktype |-> "NA",
     linkprim_score |-> 0, linktype_rank |-> 0,
     overlap_days |-> 0, cusip6_match |-> 0]

\* all_segments anti-joined with the keys of matched_best
Unmatched(nm, best) ==
    LET all_segments == DropDuplicates(nm, seg_keys)
        matched_keys == {seg_keys(best[i]) : i \in DOMAIN best}
    IN  Filter(all_segments, LAMBDA n : seg_keys(n) \notin matched_keys)

merge_and_rank(nm, lk) ==
    LET matched_best == MatchedBest(nm, lk)
        unmatched == Unmatched(nm, matched_best)
    IN  [i \in DOMAIN matched_best |-> MasterRow(matched_best[i])]
        \o [i \in DOMAIN unmatched |-> UnmatchedRow(unmatched[i])]

\* ------------------------------------------------------------------------
\* add_flags_and_labels
\* ------------------------------------------------------------------------
\* shrcd.isin([10, 11])
IsCommon(shrcd) == shrcd \in {10, 11}

Flagged(r) ==
    [permno |-> r.permno, namedt |-> r.namedt, nameendt |-> r.nameendt,
     ncusip6 |-> r.ncusip6, shrcd |-> r.shrcd, is_common |-> IsCommon(r.shrcd),
     gvkey |-> r.gvkey, linkdt |-> r.linkdt, linkenddt |-> r.linkenddt,
     cusip6 |-> r.cusip6, linkprim |-> r.linkprim, linktype |-> r.linktype,
     linkprim_score |-> r.linkprim_score, linktype_rank |-> r.linktype_rank,
     overlap_days |-> r.overlap_days, cusip6_match |-> r.cusip6_match]

\* sort_values(["permno", "namedt"])
SegBefore(a, b) ==
    IF a.permno # b.permno THEN a.permno < b.permno ELSE a.namedt < b.namedt

add_flags_and_labels(tm) ==
    SortValues([i \in DOMAIN tm |-> Flagged(tm[i])], SegBefore)

\* ------------------------------------------------------------------------
\* compute_primary_permno
\* ------------------------------------------------------------------------
\* time_master.dropna(subset=["gvkey"])
ForPrimary(tm) == Filter(tm, LAMBDA r : r.gvkey # NAg)

\* (nameendt - namedt).dt.days.clip(lower=0)
SegDays(r) == Max2(0, r.nameendt - r.namedt)

RECURSIVE SumSeq(_)
SumSeq(s) == IF s = <<>> THEN 0 ELSE Head(s) + SumSeq(Tail(s))

MaxOf(S) == CHOOSE x \in S : \A y \in S : y <= x

\* the flag without the gvkey_deg condition
One2One_PermnoOnly(tp, permno, gvkey) ==
    Cardinality({r.gvkey : r \in {x \in Rows(tp) : x.permno = permno}}) = 1

\* pairs["permno"].map(perm_deg).eq(1) & pairs["gvkey"].map(gvkey_deg).eq(1)
One2One(tp, permno, gvkey) ==
    /\ Cardinality({r.gvkey : r \in {x \in Rows(tp) : x.permno = permno}}) = 1
    /\ Cardinality({r.permno : r \in {x \in Rows(tp) : x.gvkey = gvkey}}) = 1

\* the row of agg_stats of one (gvkey, permno) group
AggRow(tp, gvkey, permno) ==
    LET grp == Filter(tp, LAMBDA r : r.gvkey = gvkey /\ r.permno = permno)
    IN  [gvkey          |-> gvkey,
         permno         |-> permno,
         one2one        |-> One2One(tp, permno, gvkey),
         linkprim_score |-> MaxOf({grp[i].linkprim_score : i \in DOMAIN grp}),
         linktype_rank  |-> MaxOf({grp[i].linktype_rank : i \in DOMAIN grp}),
         seg_days       |-> SumSeq([i \in DOMAIN grp |-> SegDays(grp[i])]),
         has_common     |-> \E i \in DOMAIN grp : grp[i].is_common]

\* the order of the groups of groupby(["gvkey", "permno"])
GroupBefore(a, b) ==
    IF a.gvkey # b.gvkey THEN StrLess(a.gvkey, b.gvkey) ELSE a.permno < b.permno

\* the aggregation with the groups left in their order of first appearance
AggStats_Unsorted(tp) ==
    LET first == DropDuplicates(tp, LAMBDA r : <<r.gvkey, r.permno>>)
    IN  [i \in DOMAIN first |-> AggRow(tp, first[i].gvkey, first[i].permno)]

\* tm_for_primary.groupby(["gvkey", "permno"]).agg(...).reset_index()
AggStats(tp) ==
    LET first == DropDuplicates(tp, LAMBDA r : <<r.gvkey, r.permno>>)
    IN  SortValues([i \in DOMAIN first |->
                        AggRow(tp, first[i].gvkey, first[i].permno)],
                   GroupBefore)

BoolVal(b) == IF b THEN 1 ELSE 0

\* the sort with linkprim_score moved before the two flags
PrimaryBefore_TierFirst(a, b) ==
    IF a.gvkey # b.gvkey THEN StrLess(a.gvkey, b.gvkey)
    ELSE IF a.linkprim_score # b.linkprim_score
         THEN a.linkprim_score > b.linkprim_score
    ELSE IF a.has_common # b.has_common
         THEN BoolVal(a.has_common) > BoolVal(b.has_common)
    ELSE IF a.one2one # b.one2one THEN BoolVal(a.one2one) > BoolVal(b.one2one)
    ELSE IF a.linktype_rank # b.linktype_rank
         THEN a.linktype_rank > b.linktype_rank
    ELSE a.seg_days > b.seg_days

\* sort_values(["gvkey", "has_common", "one2one", "linkprim_score",
\* "linktype_rank", "seg_days"], ascending=[True, False, False, False, False, False])
PrimaryBefore(a, b) ==
    IF a.gvkey # b.gvkey THEN StrLess(a.gvkey, b.gvkey)
    ELSE IF a.has_common # b.has_common
         THEN BoolVal(a.has_common) > BoolVal(b.has_common)
    ELSE IF a.one2one # b.one2one THEN BoolVal(a.one2one) > BoolVal(b.one2one)
    ELSE IF a.linkprim_score # b.linkprim_score
         THEN a.linkprim_score > b.linkprim_score
    ELSE IF a.linktype_rank # b.linktype_rank
         THEN a.linktype_rank > b.linktype_rank
    ELSE a.seg_days > b.seg_days

\* primary_map without the first() per gvkey: every ranked pair is kept
PrimaryMap_AllPairs(tm) ==
    LET sorted == SortValues(AggStats(ForPrimary(tm)), PrimaryBefore)
    IN  [i \in DOMAIN sorted |->
            [gvkey |-> sorted[i].gvkey, primary_permno |-> sorted[i].permno]]

\* agg_stats.groupby("gvkey").first()[["permno"]]
PrimaryMap(tm) ==
    LET sorted == SortValues(AggStats(ForPrimary(tm)), PrimaryBefore)
        first == DropDuplicates(sorted, LAMBDA r : r.gvkey)
    IN  [i \in DOMAIN first |->
            [gvkey |-> first[i].gvkey, primary_permno |-> first[i].permno]]

\* the primary_permno the left merge on gvkey gives a row: every match of its
\* gvkey in primary_map
PrimaryOf(pm, gvkey) ==
    Filter(pm, LAMBDA m : gvkey # NAg /\ m.gvkey = gvkey)

WithPrimary(r, primary_permno) ==
    [permno |-> r.permno, namedt |-> r.namedt, nameendt |-> r.nameendt,
     ncusip6 |-> r.ncusip6, shrcd |-> r.shrcd, is_common |-> r.is_common,
     gvkey |-> r.gvkey, linkdt |-> r.linkdt, linkenddt |-> r.linkenddt,
     cusip6 |-> r.cusip6, linkprim |-> r.linkprim, linktype |-> r.linktype,
     linkprim_score |-> r.linkprim_score, linktype_rank |-> r.linktype_rank,
     overlap_days |-> r.overlap_days, cusip6_match |-> r.cusip6_match,
     primary_permno |-> primary_permno,
     is_primary_permno |-> primary_permno # NA /\ r.permno = primary_permno]

\* time_master.merge(primary_map, on="gvkey", how="left") and the flag
\* permno == primary_permno (a comparison with <NA> is not True)
FlagPrimary(tm, pm) ==
    LET rowsFor(r) ==
            LET m == PrimaryOf(pm, r.gvkey)
            IN  IF m = <<>> THEN <<WithPrimary(r, NA)>>
                ELSE [k \in DOMAIN m |-> WithPrimary(r, m[k].primary_permno)]
    IN  Concat([i \in DOMAIN tm |-> rowsFor(tm[i])])

\* ------------------------------------------------------------------------
\* build_security_master, Step 6 and the sanity checks
\* ------------------------------------------------------------------------
\* dropna(["gvkey", "primary_permno"]).drop_duplicates(["gvkey"])
\* [["gvkey", "primary_permno"]].sort_values("gvkey")
PrimaryTableBefore(a, b) == StrLess(a.gvkey, b.gvkey)

PrimaryTableKey(r) == r.gvkey

PrimaryTable(tm) ==
    LET kept == DropDuplicates(
                    Filter(tm, LAMBDA r : r.gvkey # NAg /\ r.primary_permno # NA),
                    PrimaryTableKey)
    IN  SortValues([i \in DOMAIN kept |->
                        [gvkey |-> kept[i].gvkey,
                         primary_permno |-> kept[i].primary_permno]],
                   PrimaryTableBefore)

\* prim_counts: per gvkey, the distinct permnos of the rows flagged primary
PrimCounts(tm, g) ==
    Cardinality({r.permno : r \in {x \in Rows(tm) : x.is_primary_permno /\ x.gvkey = g}})

PrimGroups(tm) ==
    {r.gvkey : r \in {x \in Rows(tm) : x.is_primary_permno /\ x.gvkey # NAg}}

\* the counts that the logical checks print
SanityChecks(tm) ==
    [neg_spans |-> Cardinality({i \in DOMAIN tm : tm[i].nameendt < tm[i].namedt}),
     bad_links |-> Cardinality({i \in DOMAIN tm :
                        /\ tm[i].gvkey # NAg
                        /\ tm[i].linkdt # NA /\ tm[i].linkenddt # NA
                        /\ tm[i].linkenddt < tm[i].linkdt}),
     one_primary |-> Cardinality({g \in PrimGroups(tm) : PrimCounts(tm, g) = 1}),
     zero_primaries |-> Cardinality({r.gvkey : r \in {x \in Rows(tm) : x.gvkey # NAg}})
                        - Cardinality(PrimGroups(tm)),
     multi_primary |-> Cardinality({g \in PrimGroups(tm) : PrimCounts(tm, g) > 1})]

\* the counts before the checks have run
NoSanity ==
    [neg_spans |-> 0, bad_links |-> 0, one_primary |-> 0, zero_primaries |-> 0,
     multi_primary |-> 0]

\* ------------------------------------------------------------------------
\* ESG mappers: BaseESGMapper and its three provider classes.
\* A provider record carries the columns set by extract_identifiers; a
\* security-master segment carries the columns read by load_security_master,
\* with gvkey a number (NA when the segment has no link) and exchcd present.
\* ------------------------------------------------------------------------
FAR_FUTURE == far_future

\* the length of a calendar year on the model's day scale
DAYS_PER_YEAR == 2

PREFERRED_EXCHANGES == {1, 3}

Mappers == {"refinitiv", "msci", "fmp"}

\* [entity_id_col, "year"]
KeyOf(r) == <<r.id, r.year>>

\* the order of two rows under a list of sort columns
LexLess(x, y) ==
    \E i \in DOMAIN x : x[i] < y[i] /\ \A j \in 1..(i - 1) : x[j] = y[j]

KeyBefore(a, b) == LexLess(KeyOf(a), KeyOf(b))

\* January 1 of a year
YearStart(year) == year * DAYS_PER_YEAR

\* the difference of two numpy datetime64[ns] values: int64 arithmetic that
\* wraps around without an error
WrapSub(a, b) ==
    IF a - b > TIMEDELTA_MAX THEN a - b - 2 * (TIMEDELTA_MAX + 1) ELSE a - b

calculate_overlap_days(start1, end1, start2, end2) ==
    LET overlap_start == IF start1 >= start2 THEN start1 ELSE start2
        overlap_end == IF end1 <= end2 THEN end1 ELSE end2
        days == WrapSub(overlap_end, overlap_start)
    IN  IF days < 0 THEN 0 ELSE days

\* the non-missing values of a column of the provider data
UniqueIdentifiers(provider, col) ==
    {r[col] : r \in {x \in Rows(provider) : col \in DOMAIN x /\ x[col] # "NA"}}

get_unique_identifiers(provider) ==
    [cusip6 |-> UniqueIdentifiers(provider, "cusip6_from_cusip")
                \cup UniqueIdentifiers(provider, "cusip6_from_isin"),
     ticker |-> UniqueIdentifiers(provider, "ticker")]

\* <<year_min, year_max>>, or <<>> for None
get_year_range(provider) ==
    IF provider = <<>> THEN <<>>
    ELSE LET years == {r.year : r \in Rows(provider)}
         IN  <<CHOOSE y \in years : \A z \in years : y <= z, MaxOf(years)>>

filter_security_master(sm, identifiers, year_range) ==
    LET filtered == Filter(sm, LAMBDA s : \/ s.ncusip6 \in identifiers.cusip6
                                          \/ s.ticker \in identifiers.ticker)
    IN  IF year_range = <<>> THEN filtered
        ELSE Filter(filtered,
                    LAMBDA s : /\ s.namedt < YearStart(year_range[2] + 1)
                               /\ s.nameendt >= YearStart(year_range[1]))

\* the candidates of a strategy that does not exclude the matched records
Candidates_IgnoreMatched(provider, col, already_matched) ==
    Filter(provider, LAMBDA r : r[col] # "NA")

\* the provider records a strategy runs on: those with the identifier and
\* without a match of an earlier strategy (already_matched is <<>> for None)
Candidates(provider, col, already_matched) ==
    Filter(provider,
           LAMBDA r : /\ r[col] # "NA"
                      /\ \A i \in DOMAIN already_matched :
                            KeyOf(already_matched[i]) # KeyOf(r))

\* a row of DataFrame.merge: a column of both frames gets the suffixes
MergeRow(p, s) ==
    LET both == DOMAIN p \cap DOMAIN s
        plain == [c \in (DOMAIN p \cup DOMAIN s) \ both |->
                    IF c \in DOMAIN p THEN p[c] ELSE s[c]]
    IN  IF "ticker" \in both
        THEN plain @@ [ticker_x |-> p.ticker, ticker_y |-> s.ticker]
        ELSE plain

\* candidates.merge(security_master, left_on, right_on, how="inner")
MergeOn(candidates, sm, left_on, right_on) ==
    Concat([i \in DOMAIN candidates |->
        LET hits == Filter(sm, LAMBDA s : s[right_on] = candidates[i][left_on])
        IN  [k \in DOMAIN hits |-> MergeRow(candidates[i], hits[k])]])

\* the body shared by match_by_cusip6 and match_by_ticker
MatchOn(provider, sm, left_on, right_on, already_matched) ==
    LET candidates == Candidates(provider, left_on, already_matched)
        merged == MergeOn(candidates, sm, left_on, right_on)
        withDays == [i \in DOMAIN merged |->
            merged[i] @@ [overlap_days |->
                calculate_overlap_days(merged[i].valid_from, merged[i].valid_to,
                                       merged[i].namedt, merged[i].nameendt)]]
    IN  Filter(withDays, LAMBDA m : m.overlap_days > 0)

match_by_cusip6(provider, sm, cusip6_col, already_matched) ==
    MatchOn(provider, sm, cusip6_col, "ncusip6", already_matched)

match_by_ticker(provider, sm, ticker_col, already_matched) ==
    MatchOn(provider, sm, ticker_col, "ticker", already_matched)

\* source_scores with one weight for the two CUSIP6 sources
SourceScore_FlatCusip(match_source) ==
    CASE match_source = "CUSIP6" -> 5
      [] match_source = "ISIN_CUSIP6" -> 5
      [] match_source = "ISIN" -> 6
      [] match_source = "TICKER" -> 3
      [] OTHER -> 0

SourceScore(match_source) ==
    CASE match_source = "CUSIP6" -> 5
      [] match_source = "ISIN_CUSIP6" -> 4
      [] match_source = "ISIN" -> 6
      [] match_source = "TICKER" -> 3
      [] OTHER -> 0

calculate_match_score(m, match_source) ==
    SourceScore(match_source)
    + 3 * BoolVal(m.is_common)
    + 2 * BoolVal(m.is_primary_permno)
    + BoolVal(m.exchcd \in PREFERRED_EXCHANGES)
    + Min2(3, m.overlap_days \div DAYS_PER_YEAR)
    + Fill0(m.linkprim_score)
    + Fill0(m.linktype_rank)

\* the match_src and match_score columns set by perform_matching
WithScore(df, match_source) ==
    [i \in DOMAIN df |->
        df[i] @@ [match_src |-> match_source,
                  match_score |-> calculate_match_score(df[i], match_source)]]

\* key_cols + rank_cols with their sort directions
RankKey(m) ==
    <<m.id, m.year, -m.match_score, -m.overlap_days,
      -BoolVal(m.is_primary_permno), -BoolVal(m.is_common), m.exchcd, m.namedt>>

BestBefore(a, b) == LexLess(RankKey(a), RankKey(b))

\* the sorted candidates, all of them kept
select_best_match_KeepAll(df) ==
    SortValues(df, BestBefore)

select_best_match(df) ==
    DropDuplicates(SortValues(df, BestBefore), KeyOf)

\* the two strategies of each mapper, in the order perform_matching runs them
FirstCol(m) == IF m = "fmp" THEN "cusip6_from_isin" ELSE "cusip6_from_cusip"

FirstSrc(m) == IF m = "fmp" THEN "ISIN" ELSE "CUSIP6"

SecondCol(m) == IF m = "fmp" THEN "clean_symbol" ELSE "cusip6_from_isin"

SecondSrc(m) == IF m = "fmp" THEN "TICKER" ELSE "ISIN_CUSIP6"

\* Step 1 of perform_matching: best_cusip (best_isin for FMP)
FirstBest(m, provider, sm) ==
    select_best_match(
        WithScore(match_by_cusip6(provider, sm, FirstCol(m), <<>>), FirstSrc(m)))

\* Step 2 of perform_matching: best_isin (best_ticker for FMP)
SecondBest(m, provider, sm) ==
    LET already_matched == FirstBest(m, provider, sm)
        found == IF m = "fmp"
                 THEN match_by_ticker(provider, sm, SecondCol(m), already_matched)
                 ELSE match_by_cusip6(provider, sm, SecondCol(m), already_matched)
    IN  select_best_match(WithScore(found, SecondSrc(m)))

OutputCols ==
    {"id", "clean_symbol", "year", "match_src", "match_score", "overlap_days",
     "permno", "gvkey", "is_primary_permno", "is_common", "exchcd",
     "namedt", "nameendt", "ticker", "ncusip6"}

OutputRow(r) == [c \in OutputCols \cap DOMAIN r |-> r[c]]

perform_matching(m, provider, sm) ==
    LET combined == FirstBest(m, provider, sm) \o SecondBest(m, provider, sm)
    IN  SortValues([i \in DOMAIN combined |-> OutputRow(combined[i])], KeyBefore)

\* run: the identifiers and the year range, the filter, the matching
RunMatching(m, provider, sm) ==
    perform_matching(m, provider,
        filter_security_master(sm, get_unique_identifiers(provider),
                               get_year_range(provider)))

\* the matches with the rows without a gvkey left in
WithGvkey_KeepAll(ms) == ms

\* matches.dropna(subset=["gvkey"])
WithGvkey(ms) == Filter(ms, LAMBDA r : r.gvkey # NA)

GroupRows(ms, id, gvkey) == Filter(ms, LAMBDA r : r.id = id /\ r.gvkey = gvkey)

\* "match_score": "max" in place of "sum"
TotalScore_Max(g) ==
    MaxOf({g[i].match_score : i \in DOMAIN g})

\* "match_score": "sum"
TotalScore(g) ==
    SumSeq([i \in DOMAIN g |-> g[i].match_score])

\* x.value_counts().index[0]: the most frequent permno, the one met first
\* among equally frequent ones
MostFrequentPermno(g) ==
    LET count(p) == Cardinality({i \in DOMAIN g : g[i].permno = p})
        top == {i \in DOMAIN g :
                    \A j \in DOMAIN g : count(g[j].permno) <= count(g[i].permno)}
    IN  g[CHOOSE i \in top : \A j \in top : i <= j].permno

\* one row of crosswalk_agg
CrosswalkAgg(ms, id, gvkey) ==
    LET g == GroupRows(ms, id, gvkey)
    IN  [id |-> id, gvkey |-> gvkey,
         total_score |-> TotalScore(g),
         years_covered |-> Cardinality({g[i].year : i \in DOMAIN g}),
         max_overlap_days |-> MaxOf({g[i].overlap_days : i \in DOMAIN g}),
         primary_permno |-> MostFrequentPermno(g),
         first_seen |-> -MaxOf({-g[i].namedt : i \in DOMAIN g}),
         last_seen |-> MaxOf({g[i].nameendt : i \in DOMAIN g})]

GroupKey(r) == <<r.id, r.gvkey>>

GroupKeyBefore(a, b) == LexLess(GroupKey(a), GroupKey(b))

\* groupby([entity_id_col, "gvkey"]).agg(...).reset_index()
crosswalk_agg(ms) ==
    LET w == WithGvkey(ms)
        keys == DropDuplicates(SortValues(w, GroupKeyBefore), GroupKey)
    IN  [i \in DOMAIN keys |-> CrosswalkAgg(w, keys[i].id, keys[i].gvkey)]

\* the sort of the groups by the entity id alone
CrosswalkBefore_ByEntity(a, b) ==
    a.id < b.id

\* sort_values([entity_id_col, total_score, years_covered, max_overlap_days],
\*             ascending=[True, False, False, False])
CrosswalkBefore(a, b) ==
    LexLess(<<a.id, -a.total_score, -a.years_covered, -a.max_overlap_days>>,
            <<b.id, -b.total_score, -b.years_covered, -b.max_overlap_days>>)

EntityOf(r) == r.id

create_crosswalk(ms) ==
    DropDuplicates(SortValues(crosswalk_agg(ms), CrosswalkBefore), EntityOf)

\* the two files of save_outputs
save_outputs(ms, cw) ==
    {[file |-> "year_match", rows |-> ms], [file |-> "to_gvkey", rows |-> cw]}

\* _print_summary reads self.matches[entity_id_col]; perform_matching returns
\* a frame without columns when no strategy found a match
SummaryRaises(ms) == ms = <<>>

\* ------------------------------------------------------------------------
\* Components at rest
\* ------------------------------------------------------------------------
NormIdle == npc = "idle" /\ gv_raw = NAg /\ gv_norm = NAg

MapIdle ==
    /\ mpc = "idle" /\ mapper = "none"
    /\ provider_data = <<>> /\ security_master = <<>> /\ sm_filtered = <<>>
    /\ matches = <<>> /\ crosswalk = <<>> /\ saved = {} /\ added = <<>>

SmIdle ==
    /\ pc = "idle"
    /\ rawNames = <<>> /\ rawLinks = <<>>
    /\ names = <<>> /\ links = <<>>
    /\ time_master = <<>> /\ primary_map = <<>>
    /\ sm_files = {} /\ sanity = NoSanity /\ sm_result = "none"

RunIdle ==
    /\ rpc = "idle" /\ master = "none" /\ sources = <<>> /\ position = 0
    /\ results = <<>> /\ out_dir = {} /\ consolidated = <<>> /\ exit_status = NA

\* ------------------------------------------------------------------------
\* Inputs of build_security_master: the rows of the two raw CRSP files
\* ------------------------------------------------------------------------
G1 == <<"1", "0", "0", "1">>
G2 == <<"1", "0", "0", "2", ".", "0">>
GBad == <<"n", "a">>

NameRow(p, d, e, c, sh) ==
    [permno |-> p, namedt |-> d, nameendt |-> e, ncusip6 |-> c, shrcd |-> sh]

LinkRow(p, g, d, e, lp, lt, c) ==
    [permno |-> p, gvkey |-> g, linkdt |-> d, linkenddt |-> e,
     linkprim |-> lp, linktype |-> lt, cusip6 |-> c]

\* "links": segments with and without an end or a start, of a security with
\* links and of one without, links with a valid and with an unusable gvkey;
\* "primary": two securities, common and other shares, two gvkeys;
\* "dates": one security whose segments and links have dates that parse and
\* dates that do not, the parsed links lying before or after the segment;
\* "overlap": one security with closed and open-ended segments and links that
\* are disjoint, partially overlapping, contained, identical and touching
NameRows(w) ==
    IF w = "links"
    THEN {NameRow(p, d[1], d[2], "A", 10) : p \in {1, 2}, d \in {<<3, 5>>, <<5, NA>>}}
         \cup {NameRow(1, NA, 5, "A", 10), NameRow(1, 2, NA, "A", 10)}
    ELSE IF w = "dates"
    THEN {NameRow(1, d, e, "A", 10) : d \in {3, Garbled}, e \in {5, Garbled}}
    ELSE IF w = "overlap"
    THEN {NameRow(1, d, e, "A", 10) : d \in {1, 3}, e \in {5, NA}}
    ELSE {NameRow(p, 3, 5, "A", sh) : p \in {1, 2}, sh \in {10, 31}}

LinkRows(w) ==
    IF w = "links"
    THEN {LinkRow(1, g[1], d[1], d[2], g[2], "LU", "A") :
            g \in {<<G1, "P">>, <<G1, "J">>, <<GBad, "P">>},
            d \in {<<NA, 4>>, <<4, NA>>}}
    ELSE IF w = "dates"
    THEN {LinkRow(1, G1, d, e, "P", "LU", "A") :
            d \in {1, 6, Garbled}, e \in {2, 7, Garbled}}
    ELSE IF w = "overlap"
    THEN {LinkRow(1, G1, d[1], d[2], "P", "LU", "A") :
            d \in {<<NA, 2>>, <<NA, NA>>, <<3, 5>>, <<4, NA>>, <<5, 7>>, <<6, 7>>}}
    ELSE {LinkRow(p, g, NA, 4, lp, "LC", "A") :
            p \in {1, 2}, g \in {G1, G2}, lp \in {"P", "J"}}

\* ------------------------------------------------------------------------
\* build_security_master
\* ------------------------------------------------------------------------
InitOn(w) ==
    /\ pc = "start"
    /\ rawNames \in SeqsUpTo(NameRows(w), MaxNames)
    /\ rawLinks \in SeqsUpTo(LinkRows(w), MaxLinks)
    /\ names = <<>>
    /\ links = <<>>
    /\ time_master = <<>>
    /\ primary_map = <<>>
    /\ sm_files = {} /\ sanity = NoSanity /\ sm_result = "none"
    /\ NormIdle
    /\ MapIdle
    /\ RunIdle

\* Step 1
LoadNames ==
    /\ pc = "start"
    /\ names' = load_and_process_names(rawNames)
    /\ pc' = "names_loaded"
    /\ UNCHANGED <<rawNames, rawLinks, links, time_master, primary_map>>
    /\ UNCHANGED <<sm_files, sanity, sm_result>>
    /\ UNCHANGED <<normVars, mapVars, runVars>>

\* Step 2
LoadLinks ==
    /\ pc = "names_loaded"
    /\ links' = load_and_process_links(rawLinks)
    /\ pc' = "links_loaded"
    /\ UNCHANGED <<rawNames, rawLinks, names, time_master, primary_map>>
    /\ UNCHANGED <<sm_files, sanity, sm_result>>
    /\ UNCHANGED <<normVars, mapVars, runVars>>

\* overlap_end - overlap_start raises on a row of the merge
MergeRaises(nm, lk) ==
    LET m == MergeLeft(nm, lk)
    IN  \E i \in DOMAIN m : SubOverflows(OverlapEnd(m[i]), OverlapStart(m[i]))

\* Step 3
MergeAndRank ==
    /\ pc = "links_loaded"
    /\ IF MergeRaises(names, links)
       THEN pc' = "failed" /\ UNCHANGED time_master
       ELSE pc' = "merged" /\ time_master' = merge_and_rank(names, links)
    /\ UNCHANGED <<rawNames, rawLinks, names, links, primary_map>>
    /\ UNCHANGED <<sm_files, sanity, sm_result>>
    /\ UNCHANGED <<normVars, mapVars, runVars>>

\* Step 4
AddFlags ==
    /\ pc = "merged"
    /\ time_master' = add_flags_and_labels(time_master)
    /\ pc' = "flagged"
    /\ UNCHANGED <<rawNames, rawLinks, names, links, primary_map>>
    /\ UNCHANGED <<sm_files, sanity, sm_result>>
    /\ UNCHANGED <<normVars, mapVars, runVars>>

\* nameendt - namedt raises on a linked row
PrimaryRaises(tm) ==
    \E r \in Rows(ForPrimary(tm)) : SubOverflows(r.nameendt, r.namedt)

\* Step 5
ComputePrimary ==
    /\ pc = "flagged"
    /\ IF PrimaryRaises(time_master)
       THEN pc' = "failed" /\ UNCHANGED <<time_master, primary_map>>
       ELSE /\ pc' = "done"
            /\ primary_map' = PrimaryMap(time_master)
            /\ time_master' = FlagPrimary(time_master, PrimaryMap(time_master))
    /\ UNCHANGED <<rawNames, rawLinks, names, links>>
    /\ UNCHANGED <<sm_files, sanity, sm_result>>
    /\ UNCHANGED <<normVars, mapVars, runVars>>

\* Step 6, the summary and the sanity checks; the function returns True
SaveAndCheck ==
    /\ pc = "done"
    /\ sm_files' = {[file |-> "segments", rows |-> time_master],
                    [file |-> "primary", rows |-> PrimaryTable(time_master)]}
    /\ sanity' = SanityChecks(time_master)
    /\ sm_result' = "True"
    /\ pc' = "complete"
    /\ UNCHANGED <<rawNames, rawLinks, names, links, time_master, primary_map>>
    /\ UNCHANGED <<normVars, mapVars, runVars>>

Next ==
    \/ LoadNames \/ LoadLinks \/ MergeAndRank \/ AddFlags \/ ComputePrimary
    \/ SaveAndCheck

Init == InitOn("links")

Spec == Init /\ [][Next]_vars

InitDates == InitOn("dates")

SpecDates == InitDates /\ [][Next]_vars

InitOverlap == InitOn("overlap")

SpecOverlap == InitOverlap /\ [][Next]_vars

InitPrimary == InitOn("primary")

SpecPrimary == InitPrimary /\ [][Next]_vars

\* ------------------------------------------------------------------------
\* norm_gvkey on one raw value of the gvkey column
\* ------------------------------------------------------------------------
\* digits, the decimal point, a blank and a letter
RawChars == {"0", "7", ".", " ", "x"}

\* a missing cell, or any text of the column
InitNorm ==
    /\ npc = "raw"
    /\ gv_raw \in {NAg} \cup (SeqsUpTo(RawChars, MaxRawLen) \ {<<>>})
    /\ gv_norm = NAg
    /\ SmIdle
    /\ MapIdle
    /\ RunIdle

Normalize ==
    /\ npc = "raw"
    /\ gv_norm' = norm_gvkey(gv_raw)
    /\ npc' = "normalized"
    /\ UNCHANGED <<gv_raw, smVars, mapVars, runVars>>

NextNorm == Normalize

SpecNorm == InitNorm /\ [][NextNorm]_vars

\* ------------------------------------------------------------------------
\* Inputs of a mapper run: the provider records after extract_identifiers
\* (unique per entity id and year) and the segments of the security master
\* (written by build_security_master in the order of permno and namedt)
\* ------------------------------------------------------------------------
ProviderIds == {1, 2}

ProviderYears == {1, 2}

\* the identifiers of a record: cusip6_from_cusip, cusip6_from_isin, ticker
\* for Refinitiv and MSCI; cusip6_from_isin, clean_symbol for FMP
IdentifierSets(m) ==
    IF m = "fmp"
    THEN {<<"C1", "T2">>, <<"NA", "T1">>, <<"NA", "NA">>, <<"C2", "T1">>}
    ELSE {<<"C1", "C2", "T1">>, <<"NA", "C2", "NA">>, <<"NA", "NA", "T1">>,
          <<"C2", "C1", "NA">>}

ProviderRow(m, id, year, ids) ==
    IF m = "fmp"
    THEN [id |-> id, year |-> year,
          cusip6_from_isin |-> ids[1], clean_symbol |-> ids[2],
          valid_from |-> YearStart(year), valid_to |-> YearStart(year + 1)]
    ELSE [id |-> id, year |-> year,
          cusip6_from_cusip |-> ids[1], cusip6_from_isin |-> ids[2],
          ticker |-> ids[3],
          valid_from |-> YearStart(year), valid_to |-> YearStart(year + 1)]

ProviderRows(m) ==
    {ProviderRow(m, id, year, ids) :
        id \in ProviderIds, year \in ProviderYears, ids \in IdentifierSets(m)}

Segment(permno, gvkey, namedt, nameendt, primary, common, exchcd, cusip6, tic, lp, lt) ==
    [permno |-> permno, gvkey |-> gvkey, namedt |-> namedt, nameendt |-> nameendt,
     is_primary_permno |-> primary, is_common |-> common, exchcd |-> exchcd,
     ncusip6 |-> cusip6, ticker |-> tic, linkprim_score |-> lp, linktype_rank |-> lt]

\* two securities of one issuer that agree on every ranking column, a
\* security of another company under a shared ticker, a segment without a
\* link, a segment that ends on the first day of the first year, and a
\* primary security of other shares with the identifiers, the dates and the
\* score of the unlinked common one
MasterSegs ==
    {Segment(1, 1, 0, FAR_FUTURE, TRUE, TRUE, 1, "C1", "T1", 1, 2),
     Segment(2, 2, 0, FAR_FUTURE, TRUE, TRUE, 1, "C1", "T2", 1, 2),
     Segment(3, 2, 0, 5, FALSE, FALSE, 2, "C2", "T1", 0, 0),
     Segment(4, NA, 3, FAR_FUTURE, FALSE, TRUE, 3, "C2", "T2", 0, 0),
     Segment(5, 3, 0, 2, TRUE, TRUE, 1, "C1", "T1", 1, 2),
     Segment(6, 3, 3, FAR_FUTURE, TRUE, FALSE, 1, "C2", "T2", 1, 0)}

SegmentBefore(a, b) == LexLess(<<a.permno, a.namedt>>, <<b.permno, b.namedt>>)

IsSorted(df, Before(_, _)) ==
    \A i \in DOMAIN df : \A j \in DOMAIN df : i < j => Before(df[i], df[j])

\* ------------------------------------------------------------------------
\* BaseESGMapper.run
\* ------------------------------------------------------------------------
InitMap ==
    /\ mpc = "loaded"
    /\ mapper \in Mappers
    /\ provider_data \in {s \in SeqsUpTo(ProviderRows(mapper), MaxRecords) :
                            IsSorted(s, KeyBefore)}
    /\ security_master \in {s \in SeqsUpTo(MasterSegs, MaxSegs) :
                            IsSorted(s, SegmentBefore)}
    /\ sm_filtered = <<>>
    /\ matches = <<>>
    /\ crosswalk = <<>>
    /\ saved = {}
    /\ added = <<>>
    /\ SmIdle
    /\ NormIdle
    /\ RunIdle

FilterMaster ==
    /\ mpc = "loaded"
    /\ sm_filtered' = filter_security_master(security_master,
                          get_unique_identifiers(provider_data),
                          get_year_range(provider_data))
    /\ mpc' = "filtered"
    /\ UNCHANGED <<mapper, provider_data, security_master, matches, crosswalk,
                   saved, added>>
    /\ UNCHANGED <<smVars, normVars, runVars>>

PerformMatching ==
    /\ mpc = "filtered"
    /\ matches' = perform_matching(mapper, provider_data, sm_filtered)
    /\ mpc' = "matched"
    /\ UNCHANGED <<mapper, provider_data, security_master, sm_filtered,
                   crosswalk, saved, added>>
    /\ UNCHANGED <<smVars, normVars, runVars>>

CreateCrosswalk ==
    /\ mpc = "matched"
    /\ crosswalk' = create_crosswalk(matches)
    /\ mpc' = "crosswalked"
    /\ UNCHANGED <<mapper, provider_data, security_master, sm_filtered,
                   matches, saved, added>>
    /\ UNCHANGED <<smVars, normVars, runVars>>

SaveOutputs ==
    /\ mpc = "crosswalked"
    /\ saved' = save_outputs(matches, crosswalk)
    /\ mpc' = "saved"
    /\ UNCHANGED <<mapper, provider_data, security_master, sm_filtered,
                   matches, crosswalk, added>>
    /\ UNCHANGED <<smVars, normVars, runVars>>

PrintSummary ==
    /\ mpc = "saved"
    /\ mpc' = IF SummaryRaises(matches) THEN "failed" ELSE "done"
    /\ UNCHANGED <<mapper, provider_data, security_master, sm_filtered,
                   matches, crosswalk, saved, added>>
    /\ UNCHANGED <<smVars, normVars, runVars>>

NextMap ==
    FilterMaster \/ PerformMatching \/ CreateCrosswalk \/ SaveOutputs \/ PrintSummary

SpecMap == InitMap /\ [][NextMap]_vars

\* ------------------------------------------------------------------------
\* create_crosswalk on a table of yearly matches that grows by one match
\* ------------------------------------------------------------------------
\* the entity ids and years of the matches
CrosswalkKeys == {<<1, 1>>, <<1, 2>>, <<1, 3>>, <<2, 1>>}

YearlyMatch(key, gvkey, score, days) ==
    [id |-> key[1], year |-> key[2], gvkey |-> gvkey,
     permno |-> IF gvkey = NA THEN 9 ELSE gvkey,
     match_score |-> score, overlap_days |-> days,
     namedt |-> YearStart(key[2]), nameendt |-> FAR_FUTURE]

\* match_score and overlap_days of a match
Evidences == {<<3, 1>>, <<5, 1>>, <<5, 2>>}

YearlyMatches ==
    {YearlyMatch(k, g, ev[1], ev[2]) :
        k \in CrosswalkKeys, g \in {NA, 1, 2}, ev \in Evidences}

InitCw ==
    /\ mpc = "matched"
    /\ mapper = "refinitiv"
    /\ provider_data = <<>>
    /\ security_master = <<>>
    /\ sm_filtered = <<>>
    /\ matches = <<>>
    /\ crosswalk = <<>>
    /\ saved = {}
    /\ added = <<>>
    /\ SmIdle
    /\ NormIdle
    /\ RunIdle

\* one more yearly match, and create_crosswalk on the longer table
AddMatch ==
    /\ mpc = "matched"
    /\ Len(matches) < MaxMatches
    /\ \E r \in YearlyMatches :
        /\ \A i \in DOMAIN matches : KeyOf(matches[i]) # KeyOf(r)
        /\ matches' = SortValues(Append(matches, r), KeyBefore)
        /\ crosswalk' = create_crosswalk(matches')
        /\ added' = <<r>>
    /\ UNCHANGED <<mpc, mapper, provider_data, security_master, sm_filtered, saved>>
    /\ UNCHANGED <<smVars, normVars, runVars>>

NextCw == AddMatch

SpecCw == InitCw /\ [][NextCw]_vars

\* ------------------------------------------------------------------------
\* Step 6 and the sanity checks on a frame of flagged segments, the frames
\* that break the cardinality rules among them
\* ------------------------------------------------------------------------
CheckedRow(permno, gvkey, primary_permno) ==
    WithPrimary(
        [permno |-> permno, namedt |-> 3, nameendt |-> 5, ncusip6 |-> "A",
         shrcd |-> 10, is_common |-> TRUE,
         gvkey |-> gvkey,
         linkdt |-> IF gvkey = NAg THEN NA ELSE link_start_default,
         linkenddt |-> IF gvkey = NAg THEN NA ELSE 4,
         cusip6 |-> IF gvkey = NAg THEN "NA" ELSE "A",
         linkprim |-> IF gvkey = NAg THEN "NA" ELSE "P",
         linktype |-> IF gvkey = NAg THEN "NA" ELSE "LC",
         linkprim_score |-> IF gvkey = NAg THEN 0 ELSE 1,
         linktype_rank |-> IF gvkey = NAg THEN 0 ELSE 1,
         overlap_days |-> IF gvkey = NAg THEN 0 ELSE 1,
         cusip6_match |-> IF gvkey = NAg THEN 0 ELSE 1],
        primary_permno)

CheckedRows ==
    {CheckedRow(p, g, pp) :
        p \in {1, 2}, g \in {norm_gvkey(G1), norm_gvkey(G2), NAg},
        pp \in {1, 2, NA}}

InitSanity ==
    /\ pc = "done"
    /\ rawNames = <<>> /\ rawLinks = <<>>
    /\ names = <<>> /\ links = <<>>
    /\ time_master \in SeqsUpTo(CheckedRows, MaxChecked)
    /\ primary_map = <<>>
    /\ sm_files = {} /\ sanity = NoSanity /\ sm_result = "none"
    /\ NormIdle
    /\ MapIdle
    /\ RunIdle

NextSanity == SaveAndCheck

SpecSanity == InitSanity /\ [][NextSanity]_vars

\* ------------------------------------------------------------------------
\* compute_primary_permno on a frame of flagged segments: two securities with
\* two consecutive segments each, linked to one of two gvkeys or to none
\* ------------------------------------------------------------------------
FlaggedRow(permno, namedt, gvkey, shrcd, linkprim) ==
    Flagged(
        [permno |-> permno, namedt |-> namedt, nameendt |-> namedt + 2,
         ncusip6 |-> "A", shrcd |-> shrcd,
         gvkey |-> gvkey,
         linkdt |-> IF gvkey = NAg THEN NA ELSE link_start_default,
         linkenddt |-> IF gvkey = NAg THEN NA ELSE far_future,
         cusip6 |-> IF gvkey = NAg THEN "NA" ELSE "A",
         linkprim |-> IF gvkey = NAg THEN "NA" ELSE linkprim,
         linktype |-> IF gvkey = NAg THEN "NA" ELSE "LC",
         linkprim_score |-> IF gvkey = NAg THEN 0 ELSE LinkprimScore(linkprim),
         linktype_rank |-> IF gvkey = NAg THEN 0 ELSE LinktypeRank("LC"),
         overlap_days |-> IF gvkey = NAg THEN 0 ELSE 2,
         cusip6_match |-> IF gvkey = NAg THEN 0 ELSE 1])

FlaggedRows ==
    {FlaggedRow(p, d, g, sh, lp) :
        p \in {1, 2}, d \in {3, 5}, g \in {norm_gvkey(G1), norm_gvkey(G2)},
        sh \in {10, 31}, lp \in {"P", "J"}}
    \cup {FlaggedRow(p, d, NAg, 10, "NA") : p \in {1, 2}, d \in {3, 5}}

\* the frames of up to n rows of FlaggedRows in the order of
\* sort_values(["permno", "namedt"]), one row per segment
RECURSIVE FlaggedFrames(_)
FlaggedFrames(n) ==
    IF n = 0 THEN {<<>>}
    ELSE LET shorter == FlaggedFrames(n - 1)
         IN  shorter \cup
             UNION {{Append(tm, r) :
                        r \in {x \in FlaggedRows :
                                  tm = <<>> \/ SegBefore(tm[Len(tm)], x)}} :
                    tm \in {t \in shorter : Len(t) = n - 1}}

\* the frame that add_flags_and_labels returns: one row per segment, sorted
\* by permno and namedt
InitFlagged ==
    /\ pc = "flagged"
    /\ rawNames = <<>> /\ rawLinks = <<>>
    /\ names = <<>> /\ links = <<>>
    /\ time_master \in FlaggedFrames(MaxFlagged)
    /\ primary_map = <<>>
    /\ sm_files = {} /\ sanity = NoSanity /\ sm_result = "none"
    /\ NormIdle
    /\ MapIdle
    /\ RunIdle

NextFlagged == ComputePrimary \/ SaveAndCheck

SpecFlagged == InitFlagged /\ [][NextFlagged]_vars

\* ------------------------------------------------------------------------
\* run_mappers.main: the security master, then each enabled provider, then
\* the consolidated mapping
\* ------------------------------------------------------------------------
\* get_data_sources(), in the order of the dictionary
Providers == <<"refinitiv", "msci">>

\* the security master file exists; it is absent and the build returns True,
\* returns False or raises; it is absent and so are the raw CRSP files
MasterStates == {"exists", "built", "build_fails", "absent"}

\* the data path exists and mapper.run returns; the path is missing;
\* mapper.run raises before save_outputs; mapper.run raises after it
SourceStates == {"ok", "missing", "raises", "raises_after_save"}

\* a check that lets main go on whatever became of the security master
build_security_master_if_needed_Always(m) == m \in MasterStates

build_security_master_if_needed(m) == m \in {"exists", "built"}

\* run_single_mapper returns the frames, or (None, None)
run_single_mapper(s) == IF s = "ok" THEN "mapped" ELSE "none"

\* the crosswalk file of the provider is in the output directory
WritesCrosswalk(s) == s \in {"ok", "raises_after_save"}

InitRun ==
    /\ rpc = "start"
    /\ master \in MasterStates
    /\ sources \in [1..Len(Providers) -> SourceStates]
    /\ position = 1
    /\ results = <<>>
    /\ out_dir = {}
    /\ consolidated = <<>>
    /\ exit_status = NA
    /\ SmIdle
    /\ NormIdle
    /\ MapIdle

\* main up to the loop: without a security master it returns
CheckMaster ==
    /\ rpc = "start"
    /\ IF build_security_master_if_needed(master)
       THEN rpc' = "mapping" /\ UNCHANGED exit_status
       ELSE rpc' = "exited" /\ exit_status' = 0
    /\ UNCHANGED <<master, sources, position, results, out_dir, consolidated>>
    /\ UNCHANGED <<smVars, normVars, mapVars>>

\* one turn of the loop over the providers
RunSingleMapper ==
    /\ rpc = "mapping"
    /\ position <= Len(Providers)
    /\ results' = Append(results, <<Providers[position],
                                    run_single_mapper(sources[position])>>)
    /\ out_dir' = IF WritesCrosswalk(sources[position])
                  THEN out_dir \cup {Providers[position]}
                  ELSE out_dir
    /\ position' = position + 1
    /\ UNCHANGED <<rpc, master, sources, consolidated, exit_status>>
    /\ UNCHANGED <<smVars, normVars, mapVars>>

\* create_consolidated_mapping: the providers whose crosswalk file it loads
create_consolidated_mapping(dir) ==
    Filter(Providers, LAMBDA p : p \in dir)

\* the end of main: the consolidated mapping, the summary, the return
Consolidate ==
    /\ rpc = "mapping"
    /\ position > Len(Providers)
    /\ consolidated' = create_consolidated_mapping(out_dir)
    /\ rpc' = "exited"
    /\ exit_status' = 0
    /\ UNCHANGED <<master, sources, position, results, out_dir>>
    /\ UNCHANGED <<smVars, normVars, mapVars>>

NextRun == CheckMaster \/ RunSingleMapper \/ Consolidate

SpecRun == InitRun /\ [][NextRun]_vars

\* ========================================================================
\* Properties of the security master build
\* ========================================================================
\* the rows of the sorted merge that qualify as a link of the segment with key k
Qualifying(k) ==
    {r \in Rows(Merged(names, links)) : r.overlap_ok /\ seg_keys(r) = k}

\* C1: the output of merge_and_rank holds exactly one row for every distinct
\* segment (permno, namedt, nameendt) of names, matched or not, and no other
\* row; so a segment carries at most one gvkey
C1_OneRowPerSegment ==
    pc = "merged" =>
        /\ \A n \in Rows(names) :
            Cardinality({i \in DOMAIN time_master :
                            seg_keys(time_master[i]) = seg_keys(n)}) = 1
        /\ \A i \in DOMAIN time_master :
            \E n \in Rows(names) : seg_keys(n) = seg_keys(time_master[i])

\* a segment with two qualifying links next to a segment with none
C1_Witness ==
    /\ pc = "merged"
    /\ \E i \in DOMAIN time_master :
        Cardinality({j \in DOMAIN Merged(names, links) :
            /\ Merged(names, links)[j].overlap_ok
            /\ seg_keys(Merged(names, links)[j]) = seg_keys(time_master[i])}) >= 2
    /\ \E i \in DOMAIN time_master : Qualifying(seg_keys(time_master[i])) = {}

\* the gvkeys that appear on a linked row of the security master
LinkedGvkeys == {r.gvkey : r \in {x \in Rows(time_master) : x.gvkey # NAg}}

\* C2: after compute_primary_permno every gvkey of a linked segment has exactly
\* one primary_permno, no other gvkey has one, and the rows flagged
\* is_primary_permno name exactly one permno per gvkey
C2_OnePrimaryPerGvkey ==
    pc = "done" =>
        /\ \A g \in LinkedGvkeys :
            /\ Cardinality({i \in DOMAIN primary_map : primary_map[i].gvkey = g}) = 1
            /\ Cardinality({r.permno : r \in {x \in Rows(time_master) :
                                x.gvkey = g /\ x.is_primary_permno}}) = 1
        /\ \A i \in DOMAIN primary_map : primary_map[i].gvkey \in LinkedGvkeys
        /\ \A r \in Rows(time_master) : r.gvkey = NAg => ~r.is_primary_permno

\* a gvkey linked to segments of two securities
C2_Witness ==
    /\ pc = "done"
    /\ \E g \in LinkedGvkeys :
        Cardinality({r.permno : r \in {x \in Rows(time_master) : x.gvkey = g}}) = 2

\* C10: a link whose gvkey failed normalization is dropped before
\* merge_and_rank, so no segment resolves to a link without a gvkey, and a
\* segment with a qualifying link that has a gvkey resolves to a gvkey
C10_BadKeyLinksDropped ==
    pc = "merged" =>
        /\ \A r \in Rows(time_master) : r.linkdt # NA => r.gvkey # NAg
        /\ \A r \in Rows(time_master) :
            (\E q \in Qualifying(seg_keys(r)) : q.gvkey # NAg) => r.gvkey # NAg

\* ========================================================================
\* Properties of the mappers
\* ========================================================================
\* the stages of a run at which self.matches is set
MatchingDone == mpc \in {"matched", "crosswalked", "saved", "done", "failed"}

\* the stages of a run, or a table of matches, at which the crosswalk is built
CrosswalkBuilt == added # <<>> \/ mpc \in {"crosswalked", "saved", "done", "failed"}

\* provider record p and segment s share some days of the record's year
SharesDays(p, s) ==
    calculate_overlap_days(p.valid_from, p.valid_to, s.namedt, s.nameendt) > 0

\* the segments of the security master that the first strategy joins to p
FirstCandidates(p) ==
    {s \in Rows(security_master) :
        /\ p[FirstCol(mapper)] # "NA"
        /\ s.ncusip6 = p[FirstCol(mapper)]
        /\ SharesDays(p, s)}

\* the segments of the security master that the second identifier joins to p
SecondCandidates(p) ==
    {s \in Rows(security_master) :
        /\ p[SecondCol(mapper)] # "NA"
        /\ (IF mapper = "fmp" THEN s.ticker ELSE s.ncusip6) = p[SecondCol(mapper)]
        /\ SharesDays(p, s)}

\* no two rows of the frame share the entity id and the year
Deduplicated(df) ==
    \A i \in DOMAIN df : \A j \in DOMAIN df : KeyOf(df[i]) = KeyOf(df[j]) => i = j

\* C3: with provider records unique per (entity id, year), the combined
\* output of perform_matching has at most one row per (entity id, year)
C3_OneMatchPerEntityYear ==
    (MatchingDone /\ Deduplicated(provider_data)) =>
        \A i \in DOMAIN matches : \A j \in DOMAIN matches :
            KeyOf(matches[i]) = KeyOf(matches[j]) => i = j

\* a record with two candidates under the first strategy, and a match found
\* by the second strategy
C3_Witness ==
    /\ mpc = "matched"
    /\ \E p \in Rows(provider_data) : Cardinality(FirstCandidates(p)) >= 2
    /\ \E r \in Rows(matches) : r.match_src = SecondSrc(mapper)
    /\ Len(matches) = 2

\* C4: after a run every provider record is in the match table or in an
\* output of unmatched records with no gvkey
C4_EveryRecordAccounted ==
    mpc \in {"saved", "done", "failed"} =>
        \A p \in Rows(provider_data) :
            \E f \in saved : \E r \in Rows(f.rows) :
                /\ "year" \in DOMAIN r
                /\ KeyOf(r) = KeyOf(p)
                /\ (f.file = "year_match" \/ r.gvkey = NA)

\* C5: a record with a candidate of positive overlap under the first
\* strategy is matched with the first strategy's match_src, and is not among
\* the candidates of the second strategy
C5_StrategyPriority ==
    MatchingDone =>
        \A p \in Rows(provider_data) :
            FirstCandidates(p) # {} =>
                /\ \E r \in Rows(matches) :
                    KeyOf(r) = KeyOf(p) /\ r.match_src = FirstSrc(mapper)
                /\ \A r \in Rows(matches) :
                    KeyOf(r) = KeyOf(p) => r.match_src = FirstSrc(mapper)
                /\ \A c \in Rows(Candidates(provider_data, SecondCol(mapper),
                                    FirstBest(mapper, provider_data, sm_filtered))) :
                    KeyOf(c) # KeyOf(p)

\* a record matched by the first strategy whose second identifier joins a
\* segment of another gvkey
C5_Witness ==
    /\ mpc = "matched"
    /\ \E p \in Rows(provider_data) : \E r \in Rows(matches) :
        /\ FirstCandidates(p) # {}
        /\ KeyOf(r) = KeyOf(p)
        /\ r.gvkey # NA
        /\ \E s \in SecondCandidates(p) : s.gvkey # NA /\ s.gvkey # r.gvkey

\* the rearrangements of the rows of a frame
Perms(df) ==
    {[i \in DOMAIN df |-> df[f[i]]] :
        f \in {g \in [DOMAIN df -> DOMAIN df] :
                \A a \in DOMAIN df : \A b \in DOMAIN df : g[a] = g[b] => a = b}}

\* C8: the matching gives the same set of matches for every order of the
\* provider records and of the security-master segments
C8_MatchOrderIndependent ==
    mpc = "matched" =>
        \A pp \in Perms(provider_data) : \A sp \in Perms(security_master) :
            Rows(RunMatching(mapper, pp, sp)) = Rows(matches)

\* the evidence of an entity for a gvkey, summed over the matches
AccTotal(ms, id, gvkey) ==
    LET g == Filter(ms, LAMBDA r : r.id = id /\ r.gvkey = gvkey)
    IN  SumSeq([i \in DOMAIN g |-> g[i].match_score])

\* total score, years covered, largest overlap; the better evidence first
Evidence(ms, id, gvkey) ==
    LET g == {r \in Rows(ms) : r.id = id /\ r.gvkey = gvkey}
    IN  <<-AccTotal(ms, id, gvkey),
          -Cardinality({r.year : r \in g}),
          -MaxOf({r.overlap_days : r \in g})>>

\* the gvkeys that the matches of an entity carry
KeysOfEntity(ms, id) ==
    {r.gvkey : r \in {x \in Rows(ms) : x.id = id /\ x.gvkey # NA}}

\* the crosswalk rows of an entity
EntryOf(cw, id) == Filter(cw, LAMBDA r : r.id = id)

\* C6: the crosswalk has one entry for each entity with a match that has a
\* gvkey and none for any other, and no gvkey of the entity has better
\* evidence (total score, then years covered, then largest overlap) than
\* the entry's
C6_CrosswalkTopRanked ==
    CrosswalkBuilt =>
        /\ \A id \in {r.id : r \in Rows(matches)} :
            IF KeysOfEntity(matches, id) = {}
            THEN EntryOf(crosswalk, id) = <<>>
            ELSE /\ Len(EntryOf(crosswalk, id)) = 1
                 /\ EntryOf(crosswalk, id)[1].gvkey \in KeysOfEntity(matches, id)
                 /\ \A h \in KeysOfEntity(matches, id) :
                        ~LexLess(Evidence(matches, id, h),
                                 Evidence(matches, id, EntryOf(crosswalk, id)[1].gvkey))
        /\ \A i \in DOMAIN crosswalk :
            \E r \in Rows(matches) : r.id = crosswalk[i].id

\* an entity with two gvkeys of different total score, and an entity whose
\* only match has no gvkey
C6_Witness ==
    /\ added # <<>>
    /\ \E id \in {r.id : r \in Rows(matches)} :
        \E g \in KeysOfEntity(matches, id) : \E h \in KeysOfEntity(matches, id) :
            /\ AccTotal(matches, id, g) > AccTotal(matches, id, h)
            /\ EntryOf(crosswalk, id)[1].gvkey = g
    /\ \E id \in {r.id : r \in Rows(matches)} : KeysOfEntity(matches, id) = {}

\* the table of matches before the last match was added
PrevMatches == Filter(matches, LAMBDA r : r # added[1])

\* the entries that the entity of the last added match had before and has
\* after the addition, as <<match, matches before, entry before, rows of the
\* entity after>>, when the match has a gvkey and the entity had an entry
Additions ==
    IF added = <<>> THEN {}
    ELSE {<<a, before, prev, now>> :
            a \in {r \in Rows(added) : r.gvkey # NA},
            before \in {PrevMatches},
            prev \in Rows(EntryOf(create_crosswalk(PrevMatches), added[1].id)),
            now \in {EntryOf(crosswalk, added[1].id)}}

\* C7 as stated: a match that scores higher than the entity's entry moves
\* the entry to the match's gvkey, and a match that scores lower than every
\* match the entity had leaves the entry's gvkey unchanged
C7_MonotoneInMatchScore ==
    \A x \in Additions :
        LET a == x[1]
            before == x[2]
            prev == x[3]
            now == x[4]
        IN  /\ Len(now) = 1
            /\ a.match_score > prev.total_score => now[1].gvkey = a.gvkey
            /\ (\A r \in Rows(before) :
                    r.id = a.id => a.match_score < r.match_score)
                => now[1].gvkey = prev.gvkey

\* C7, amended: a match that lifts the total score of its gvkey above the
\* total of the entity's entry moves the entry to that gvkey, and a match
\* that leaves the total of its gvkey below the total of the entry leaves
\* the entry unchanged
C7_MonotoneInTotalScore ==
    \A x \in Additions :
        LET a == x[1]
            prev == x[3]
            now == x[4]
            entryTotal == AccTotal(x[2], a.id, prev.gvkey)
            newTotal == AccTotal(matches, a.id, a.gvkey)
        IN  /\ Len(now) = 1
            /\ newTotal > entryTotal => now[1].gvkey = a.gvkey
            /\ newTotal < entryTotal => now[1] = prev

\* a match that scores lower than the entry moves the entry to its gvkey
C7_Witness ==
    \E x \in Additions :
        LET a == x[1]
            prev == x[3]
            now == x[4]
            entryTotal == AccTotal(x[2], a.id, prev.gvkey)
        IN  /\ a.gvkey # prev.gvkey
            /\ a.match_score < entryTotal
            /\ AccTotal(matches, a.id, a.gvkey) > entryTotal
            /\ Len(now) = 1
            /\ now[1].gvkey = a.gvkey

\* ========================================================================
\* Properties of norm_gvkey
\* ========================================================================
\* C9: a normalized gvkey is missing or exactly six decimal digits
C9_SixDigitsOrMissing ==
    npc = "normalized" =>
        \/ gv_norm = NAg
        \/ /\ Len(gv_norm) = GVKEY_WIDTH
           /\ \A i \in DOMAIN gv_norm : gv_norm[i] \in Digits

\* ========================================================================
\* Properties of the build's last step and of the mapper pipeline
\* ========================================================================
\* two rows of the frame are the same segment, each with a link
DuplicateSegments(tm) ==
    \E i, j \in DOMAIN tm :
        /\ i # j
        /\ seg_keys(tm[i]) = seg_keys(tm[j])
        /\ tm[i].gvkey # NAg /\ tm[j].gvkey # NAg

StageFailed(i) == sources[i] # "ok"

\* C12: when the stage of a provider fails (its raw source is missing or its
\* mapper raises), the run is aborted: no later provider is processed, no
\* consolidated mapping is written and the run does not exit with success.
C12_FailureAbortsRun ==
    \A i \in DOMAIN sources :
        (rpc = "exited" /\ Len(results) >= i /\ StageFailed(i))
            => /\ Len(results) = i
               /\ consolidated = <<>>
               /\ exit_status # 0

\* C13: a mapper run on a batch of records none of which matches still
\* completes: it writes its outputs, prints its summary and returns an empty
\* match set and an empty crosswalk without raising.
C13_NoMatchRunCompletes ==
    (/\ mpc \in {"done", "failed"}
     /\ provider_data # <<>>
     /\ matches = <<>>)
        => /\ mpc = "done"
           /\ crosswalk = <<>>
           /\ saved = save_outputs(<<>>, <<>>)

\* ========================================================================
\* Properties of the overlap and of the ranking of links
\* ========================================================================
\* a raw segment, a raw link, one of whose dates does not parse
GarbledName(n) == n.namedt = Garbled \/ n.nameendt = Garbled

GarbledLink(l) == l.linkdt = Garbled \/ l.linkenddt = Garbled

\* the row of the output carries the link that the raw link became
CarriesLink(r, l) ==
    /\ r.gvkey = ProcessLink(l).gvkey
    /\ r.linkdt = ProcessLink(l).linkdt
    /\ r.linkenddt = ProcessLink(l).linkenddt

\* C14: a segment or a link one of whose dates does not parse overlaps
\* nothing: it never yields a resolved link, and the merge goes on.
C14_GarbledDatesOverlapNothing ==
    pc \in {"merged", "failed"} =>
        /\ pc = "merged"
        /\ \A i \in DOMAIN rawLinks :
               GarbledLink(rawLinks[i]) =>
                   \A r \in Rows(time_master) : ~CarriesLink(r, rawLinks[i])
        /\ \A i \in DOMAIN rawNames :
               GarbledName(rawNames[i]) =>
                   \A r \in Rows(time_master) :
                       seg_keys(r) = seg_keys(ProcessName(rawNames[i]))
                           => r.gvkey = NAg

\* the years in which the entity matched the key
MatchedYears(ms, id, gvkey) ==
    {r.year : r \in {x \in Rows(ms) : x.id = id /\ x.gvkey = gvkey}}

\* day d lies in the year
InYear(d, year) == YearStart(year) <= d /\ d < YearStart(year + 1)

\* C15: in every crosswalk entry, first_seen lies in the first year and
\* last_seen in the last year in which the entity matched the entry's key.
C15_SeenAreMatchedPeriods ==
    mpc \in {"crosswalked", "saved", "done", "failed"} =>
        \A c \in Rows(crosswalk) :
            /\ InYear(c.first_seen,
                      -MaxOf({-y : y \in MatchedYears(matches, c.id, c.gvkey)}))
            /\ InYear(c.last_seen,
                      MaxOf(MatchedYears(matches, c.id, c.gvkey)))

\* the links of the segment's permno that overlap the segment
CandidateLinks(n) ==
    {l \in Rows(links) : l.permno = n.permno /\ OverlapOk(JoinRow(n, l))}

\* the place of link l for segment n in the ranking: smaller is better
LinkRank(n, l) ==
    <<-l.linkprim_score, -l.linktype_rank, -Cusip6Match(JoinRow(n, l)),
      -OverlapDays(JoinRow(n, l)), l.linkdt>>

\* row r of the output is segment n with link l
KeepsLink(r, n, l) ==
    /\ seg_keys(r) = seg_keys(n)
    /\ r.gvkey = l.gvkey /\ r.linkdt = l.linkdt /\ r.linkenddt = l.linkenddt
    /\ r.linkprim = l.linkprim /\ r.linktype = l.linktype /\ r.cusip6 = l.cusip6

\* C16: for every segment with a candidate link that overlaps it, the link
\* kept by merge_and_rank is one of the candidates and no candidate comes
\* before it in the order linkprim_score, linktype_rank, cusip6_match,
\* overlap_days (all descending), linkdt (ascending).
C16_KeptLinkIsMaximal ==
    pc = "merged" =>
        \A n \in Rows(names) :
            CandidateLinks(n) # {} =>
                \E r \in Rows(time_master) : \E k \in CandidateLinks(n) :
                    /\ KeepsLink(r, n, k)
                    /\ \A c \in CandidateLinks(n) :
                           ~LexLess(LinkRank(n, c), LinkRank(n, k))

\* a segment with two candidates, the one of the lower tier with more
\* overlap days, that keeps the one of the higher tier
C16_Witness ==
    /\ pc = "merged"
    /\ \E n \in Rows(names) : \E r \in Rows(time_master) :
        \E k \in CandidateLinks(n) : \E c \in CandidateLinks(n) :
            /\ KeepsLink(r, n, k)
            /\ k.linkprim_score > c.linkprim_score
            /\ OverlapDays(JoinRow(n, k)) < OverlapDays(JoinRow(n, c))

\* C17: a segment that overlaps two links of its permno with different
\* overlap_days resolves to the one with more overlap days, whatever their
\* linkprim tiers.
C17_MoreOverlapDaysWins ==
    pc = "merged" =>
        \A n \in Rows(names) : \A r \in Rows(time_master) :
            \A k \in CandidateLinks(n) : \A c \in CandidateLinks(n) :
                (/\ Cardinality(CandidateLinks(n)) = 2
                 /\ KeepsLink(r, n, k)
                 /\ OverlapDays(JoinRow(n, k)) # OverlapDays(JoinRow(n, c)))
                    => OverlapDays(JoinRow(n, k)) > OverlapDays(JoinRow(n, c))

\* C18: for every segment [a, b) and link [c, d) of its permno, overlap_ok is
\* (a <= d and b >= c) and overlap_days is max(0, min(b, d) - max(a, c)),
\* and 0 when overlap_ok is false: the merge computes them for every pair,
\* a pair that is not overlap_ok is never kept, and a kept pair carries that
\* number of days.
C18_OverlapFormula ==
    (/\ pc \in {"merged", "failed"}
     /\ names # <<>>
     /\ \A n \in Rows(names) : \E l \in Rows(links) : l.permno = n.permno) =>
        /\ pc = "merged"
        /\ \A n \in Rows(names) : \A l \in Rows(links) : \A r \in Rows(time_master) :
               (l.permno = n.permno /\ KeepsLink(r, n, l)) =>
                   /\ n.namedt <= l.linkenddt /\ n.nameendt >= l.linkdt
                   /\ r.overlap_days =
                          Max2(0, Min2(n.nameendt, l.linkenddt)
                                  - Max2(n.namedt, l.linkdt))

\* C19: every row of the output that carries a link has overlap_days > 0; a
\* segment whose links all have zero overlap days, those that only touch it
\* at an endpoint included, is left without a link.
C19_LinkedRowsOverlap ==
    pc = "merged" =>
        \A r \in Rows(time_master) : r.linkdt # NA => r.overlap_days > 0

\* the four scores of an output row are 0
ZeroScores(r) ==
    /\ r.overlap_days = 0 /\ r.cusip6_match = 0
    /\ r.linkprim_score = 0 /\ r.linktype_rank = 0

\* C20: a segment without a candidate link that overlaps it is in the output
\* with gvkey missing and overlap_days, cusip6_match, linkprim_score and
\* linktype_rank equal to 0; and every output row with a missing gvkey has
\* these four values equal to 0.
C20_UnmatchedRowsAreZero ==
    pc = "merged" =>
        /\ \A n \in Rows(names) :
               CandidateLinks(n) = {} =>
                   \E r \in Rows(time_master) :
                       seg_keys(r) = seg_keys(n) /\ r.gvkey = NAg /\ ZeroScores(r)
        /\ \A r \in Rows(time_master) : r.gvkey = NAg => ZeroScores(r)

\* ========================================================================
\* Properties of compute_primary_permno
\* ========================================================================
\* the permnos with a segment linked to the gvkey, the gvkeys of a permno
PermnosOf(tm, gvkey) == {r.permno : r \in {x \in Rows(tm) : x.gvkey = gvkey}}

GvkeysOf(tm, permno) ==
    {r.gvkey : r \in {x \in Rows(tm) : x.permno = permno /\ x.gvkey # NAg}}

\* the place of the pair (gvkey, permno) in the ranking with the one-to-one
\* flag first: smaller is better
PairRank(tm, gvkey, permno) ==
    LET grp == Filter(tm, LAMBDA r : r.gvkey = gvkey /\ r.permno = permno)
    IN  <<IF PermnosOf(tm, gvkey) = {permno} /\ GvkeysOf(tm, permno) = {gvkey}
          THEN 0 ELSE 1,
          IF \E i \in DOMAIN grp : grp[i].is_common THEN 0 ELSE 1,
          -MaxOf({grp[i].linkprim_score : i \in DOMAIN grp}),
          -MaxOf({grp[i].linktype_rank : i \in DOMAIN grp}),
          -SumSeq([i \in DOMAIN grp |-> Max2(0, grp[i].nameendt - grp[i].namedt)])>>

\* C21: for every gvkey the primary_permno is a permno of the gvkey and no
\* pair of the gvkey comes before its pair in the order one-to-one flag,
\* common-share flag, largest linkprim_score, largest linktype_rank, total
\* segment days.
C21_PrimaryIsMaximal ==
    pc = "done" =>
        \A g \in LinkedGvkeys :
            \E m \in Rows(primary_map) :
                /\ m.gvkey = g
                /\ m.primary_permno \in PermnosOf(time_master, g)
                /\ \A q \in PermnosOf(time_master, g) :
                       ~LexLess(PairRank(time_master, g, q),
                                PairRank(time_master, g, m.primary_permno))

\* a gvkey with two permnos, the primary one a common share of the lower
\* link tier, the other one not common and of the higher tier
C21_Witness ==
    /\ pc = "done"
    /\ \E m \in Rows(primary_map) : \E q \in PermnosOf(time_master, m.gvkey) :
        /\ q # m.primary_permno
        /\ PairRank(time_master, m.gvkey, m.primary_permno)[2] = 0
        /\ PairRank(time_master, m.gvkey, q)[2] = 1
        /\ PairRank(time_master, m.gvkey, q)[3]
               < PairRank(time_master, m.gvkey, m.primary_permno)[3]

\* ========================================================================
\* Properties that relate the mappers to the security master build
\* ========================================================================
\* C22: calculate_overlap_days of the mappers gives, for every segment and
\* link, the overlap_days that merge_and_rank computes for the pair.
C22_SameOverlapMeasure ==
    (/\ pc \in {"merged", "failed"}
     /\ names # <<>>
     /\ \A n \in Rows(names) : \E l \in Rows(links) : l.permno = n.permno) =>
        /\ pc = "merged"
        /\ \A n \in Rows(names) : \A l \in Rows(links) : \A r \in Rows(time_master) :
               KeepsLink(r, n, l) =>
                   r.overlap_days =
                       calculate_overlap_days(n.namedt, n.nameendt,
                                              l.linkdt, l.linkenddt)

\* the weight of a match source
SourceWeight(src) ==
    IF src = "ISIN" THEN 6
    ELSE IF src = "CUSIP6" THEN 5
    ELSE IF src = "ISIN_CUSIP6" THEN 4
    ELSE IF src = "TICKER" THEN 3
    ELSE 0

\* the segment of the security master that a match joined
SegmentOf(r) ==
    {s \in Rows(security_master) : s.permno = r.permno /\ s.namedt = r.namedt}

\* C23: the match_score of every match is the weight of its source, plus 3
\* for a common share, 2 for the primary permno, 1 for an exchange in {1, 3},
\* one point per full year of overlap up to 3, plus linkprim_score and
\* linktype_rank of the segment; and the first strategy of the mapper weighs
\* strictly more than the second.
C23_MatchScoreFormula ==
    mpc = "matched" =>
        /\ \A r \in Rows(matches) : \E s \in SegmentOf(r) :
               r.match_score =
                   SourceWeight(r.match_src)
                   + (IF s.is_common THEN 3 ELSE 0)
                   + (IF s.is_primary_permno THEN 2 ELSE 0)
                   + (IF s.exchcd \in {1, 3} THEN 1 ELSE 0)
                   + Min2(3, r.overlap_days \div DAYS_PER_YEAR)
                   + (IF s.linkprim_score = NA THEN 0 ELSE s.linkprim_score)
                   + (IF s.linktype_rank = NA THEN 0 ELSE s.linktype_rank)
        /\ SourceWeight(FirstSrc(mapper)) > SourceWeight(SecondSrc(mapper))

\* a match of each strategy, one on a full year of overlap with a common,
\* primary share on a preferred exchange, one with none of the bonuses
C23_Witness ==
    /\ mpc = "matched"
    /\ \E r \in Rows(matches) :
        /\ r.match_src = FirstSrc(mapper)
        /\ r.is_common /\ r.is_primary_permno /\ r.exchcd \in {1, 3}
        /\ r.overlap_days = DAYS_PER_YEAR
    /\ \E r \in Rows(matches) :
        /\ r.match_src = SecondSrc(mapper)
        /\ ~r.is_common /\ ~r.is_primary_permno /\ r.exchcd \notin {1, 3}

\* the days that record p and segment s share
SharedDays(p, s) ==
    calculate_overlap_days(p.valid_from, p.valid_to, s.namedt, s.nameendt)

\* the place of candidate s of record p in the order match_score,
\* overlap_days, common share, primary permno (all descending), namedt
TieBreakRank(p, s, src) ==
    <<-calculate_match_score(s @@ [overlap_days |-> SharedDays(p, s)], src),
      -SharedDays(p, s),
      IF s.is_common THEN 0 ELSE 1,
      IF s.is_primary_permno THEN 0 ELSE 1,
      s.namedt>>

\* the segments that the strategy of a match hands to select_best_match
CandidatesOf(p, src) ==
    IF src = FirstSrc(mapper)
    THEN FirstCandidates(p) \cap Rows(sm_filtered)
    ELSE SecondCandidates(p) \cap Rows(sm_filtered)

\* C24: the candidate kept for a record is the one with the highest
\* match_score, ties broken by overlap_days (descending), the common-share
\* flag (true first), the primary flag (true first) and then namedt
\* (ascending), nothing else in between: no other candidate of the record
\* comes before the kept one in that order.
C24_BestMatchTieBreak ==
    (mpc = "matched" /\ Deduplicated(provider_data)) =>
        \A r \in Rows(matches) : \A p \in Rows(provider_data) :
            KeyOf(p) = KeyOf(r) =>
                \A k \in SegmentOf(r) : \A c \in CandidatesOf(p, r.match_src) :
                    ~LexLess(TieBreakRank(p, c, r.match_src),
                             TieBreakRank(p, k, r.match_src))

\* the order with the one-to-one flag before the common-share flag
One2OneFirstBefore(a, b) ==
    IF a.gvkey # b.gvkey THEN StrLess(a.gvkey, b.gvkey)
    ELSE IF a.one2one # b.one2one THEN BoolVal(a.one2one) > BoolVal(b.one2one)
    ELSE IF a.has_common # b.has_common
         THEN BoolVal(a.has_common) > BoolVal(b.has_common)
    ELSE IF a.linkprim_score # b.linkprim_score
         THEN a.linkprim_score > b.linkprim_score
    ELSE IF a.linktype_rank # b.linktype_rank
         THEN a.linktype_rank > b.linktype_rank
    ELSE a.seg_days > b.seg_days

\* the primary_map that the order One2OneFirstBefore selects
One2OneFirstMap(tm) ==
    LET sorted == SortValues(AggStats(ForPrimary(tm)), One2OneFirstBefore)
        first == DropDuplicates(sorted, LAMBDA r : r.gvkey)
    IN  [i \in DOMAIN first |->
            [gvkey |-> first[i].gvkey, primary_permno |-> first[i].permno]]

\* C25: the (gvkey, permno) pairs of one gvkey all carry the same one2one
\* flag, and Step 5 selects the primary_map that the order with one2one
\* before has_common selects.
C25_One2OneOrderIrrelevant ==
    [][(pc = "flagged" /\ pc' = "done") =>
          /\ \A a \in Rows(AggStats(ForPrimary(time_master))) :
                 \A b \in Rows(AggStats(ForPrimary(time_master))) :
                     a.gvkey = b.gvkey => a.one2one = b.one2one
          /\ primary_map' = One2OneFirstMap(time_master)]_vars

\* a gvkey with two permnos: one without a common share that has no other
\* gvkey, one with a common share that also has a second gvkey
C25_Witness ==
    /\ pc = "done"
    /\ \E m \in Rows(primary_map) : \E q \in PermnosOf(time_master, m.gvkey) :
        /\ q # m.primary_permno
        /\ GvkeysOf(time_master, q) = {m.gvkey}
        /\ Cardinality(GvkeysOf(time_master, m.primary_permno)) = 2
        /\ PairRank(time_master, m.gvkey, q)[2] = 1
        /\ PairRank(time_master, m.gvkey, m.primary_permno)[2] = 0

\* the gvkey that a table of resolved segments gives each segment
ResolvedGvkeys(tm) == {<<seg_keys(r), r.gvkey>> : r \in Rows(tm)}

\* C26: merge_and_rank resolves every segment to the same gvkey for every
\* order of the rows of the segments and of the links, also when two
\* qualifying links of a security that name different gvkeys tie on
\* linkprim_score, linktype_rank, cusip6_match, overlap_days and linkdt.
C26_MergeOrderIndependent ==
    pc = "merged" =>
        \A np \in Perms(names) : \A lp \in Perms(links) :
            ResolvedGvkeys(merge_and_rank(np, lp)) = ResolvedGvkeys(time_master)

\* C27: Step 5 selects the same gvkey -> primary_permno map for every order
\* of the rows of the resolved segments, and of the permnos of a gvkey that
\* tie with the primary one on all five ranking criteria none is lower than
\* the primary one.
C27_PrimaryOrderIndependent ==
    [][(pc = "flagged" /\ pc' = "done") =>
          /\ \A tp \in Perms(time_master) :
                 Rows(PrimaryMap(tp)) = Rows(primary_map')
          /\ \A m \in Rows(primary_map') :
                 \A q \in PermnosOf(time_master, m.gvkey) :
                     PairRank(time_master, m.gvkey, q)
                         = PairRank(time_master, m.gvkey, m.primary_permno)
                     => m.primary_permno <= q]_vars

\* a gvkey whose two permnos tie on the five criteria, listed in an order
\* where the higher permno is not the last one
C27_Witness ==
    /\ pc = "done"
    /\ Len(time_master) = MaxFlagged
    /\ \E m \in Rows(primary_map) : \E q \in PermnosOf(time_master, m.gvkey) :
        /\ q > m.primary_permno
        /\ PairRank(time_master, m.gvkey, q)
               = PairRank(time_master, m.gvkey, m.primary_permno)

\* C28: for every mapper the matching against the filtered security master
\* gives the matches that the matching against the full security master
\* gives.
C28_FilterTransparent ==
    mpc = "matched" =>
        Rows(matches) = Rows(perform_matching(mapper, provider_data, security_master))

\* the best candidate of the first strategy for record p is a segment
\* without a gvkey
BestFirstUnlinked(p) ==
    \E b \in Rows(FirstBest(mapper, provider_data, sm_filtered)) :
        KeyOf(b) = KeyOf(p) /\ b.gvkey = NA

\* C29: a record whose best candidate of the first strategy has no gvkey is
\* in the matches with the source of the first strategy and no gvkey, has no
\* match of the second strategy, and no row of the crosswalk comes from it:
\* every crosswalk row of its entity carries a gvkey found by a match of
\* another record.
C29_UnlinkedMatchBlocksLater ==
    (mpc = "crosswalked" /\ Deduplicated(provider_data)) =>
        \A p \in Rows(provider_data) :
            BestFirstUnlinked(p) =>
                /\ \E m \in Rows(matches) :
                       KeyOf(m) = KeyOf(p) /\ m.gvkey = NA
                /\ \A m \in Rows(matches) :
                       KeyOf(m) = KeyOf(p) => m.match_src = FirstSrc(mapper)
                /\ \A c \in Rows(crosswalk) :
                       /\ c.gvkey # NA
                       /\ c.id = p.id =>
                              \E m \in Rows(matches) :
                                  /\ m.id = c.id /\ m.gvkey = c.gvkey
                                  /\ KeyOf(m) # KeyOf(p)

\* a record left without a gvkey by the first strategy although the second
\* identifier joins it to a linked segment of the filtered security master
C29_Witness ==
    /\ mpc = "crosswalked"
    /\ Deduplicated(provider_data)
    /\ \E p \in Rows(provider_data) :
        /\ BestFirstUnlinked(p)
        /\ \E s \in SecondCandidates(p) \cap Rows(sm_filtered) : s.gvkey # NA

\* ========================================================================
\* Properties of run_mappers.main
\* ========================================================================
\* the security master file exists or the build has just returned True
MasterAvailable == master \in {"exists", "built"}

\* C30: main enters the loop over the providers, runs a mapper, writes a
\* crosswalk file or builds the consolidated mapping only when the security
\* master exists or its build has just returned True; otherwise it returns
\* before the first mapper.
C30_NoMappingWithoutMaster ==
    /\ (\/ rpc = "mapping" \/ position > 1 \/ results # <<>>
        \/ out_dir # {} \/ consolidated # <<>>) => MasterAvailable
    /\ (rpc = "exited" /\ ~MasterAvailable) =>
           /\ position = 1 /\ results = <<>>
           /\ out_dir = {} /\ consolidated = <<>>

\* main has returned without a security master: the file is absent and the
\* raw files are missing or the build failed
C30_Witness ==
    /\ rpc = "exited"
    /\ master \in {"build_fails", "absent"}
    /\ results = <<>>
============================================================================
